---- MODULE Spec2Model ----
(***************************************************************************)
(* A model of the PassMan backend: the crypto context (crypto.rs), the     *)
(* vault file store with its backup directory (storage.rs), the session    *)
(* manager (auth.rs) and the PassMan facade that drives them (vault.rs).   *)
(*                                                                         *)
(* Bytes are modelled as sequences of blocks.  A vault file is             *)
(*     << salt, nonce, body, tag >>                                        *)
(* where the salt block stands for the 16 salt bytes, the nonce block for  *)
(* the 12 nonce bytes, and body and tag for the AES-GCM output.  A file    *)
(* that was cut short is a proper prefix of such a sequence.               *)
(* Time is counted in seconds.  Timestamps inside documents are left out.  *)
(***************************************************************************)
EXTENDS Integers, Sequences, FiniteSets, TLC

VARIABLES
    fs,                       \* vault directory: path -> file bytes or NoFile
    backups,                  \* backup directory: file name (timestamp) -> [data, mtime]
    vault,                    \* PassMan.vault: the in-memory document, or None
    session,                  \* AuthManager.session: an AuthSession, or None
    crypto,                   \* AuthManager.crypto: [key, salt]
    vault_name,               \* PassMan.vault_name
    max_failed_attempts,      \* AuthManager.max_failed_attempts
    session_timeout_minutes,  \* AuthManager.session_timeout_minutes
    now,                      \* the clock, in seconds
    advances,                 \* how often the clock has been advanced
    wrongs,                   \* history: authenticate calls with a wrong password in a row
    first_salt,               \* history: the salt the first init_vault generated
    msg,                      \* a caller's buffers: plaintext, encrypted bytes, decrypted result
    ev                        \* history: the last call made and what it returned

vars == << fs, backups, vault, session, crypto, vault_name,
           max_failed_attempts, session_timeout_minutes, now, advances, wrongs,
           first_salt, msg, ev >>

-----------------------------------------------------------------------------
(* Bounds and value domains *)

MaxAdvances == 2
MaxSeconds == 1
MaxLength == 5
Passwords == {"pw", "bad"}
Salts == {"s1", "s2"}
Nonces == {"n1", "n2"}
Emails == {"e@x"}
Ids == {"id1"}
Secrets == {"abc", "xyz"}
VaultNames == {"main", "work"}

\* Option<T>: None or Some(x)
None == << >>
Some(x) == << x >>
IsSome(o) == o # << >>
Unwrap(o) == o[1]

\* A path with no file, and a file holding the given blocks
NoFile == [exists |-> FALSE, data |-> << >>]
File(blocks) == [exists |-> TRUE, data |-> blocks]

NoKey == << >>
NoSalt == "NoSalt"

\* The buffers of a caller of the crypto context, before any call
NoMsg == [plain |-> << >>, key |-> NoKey, sent |-> << >>, bytes |-> << >>,
          dkey |-> NoKey, res |-> "-", out |-> << >>,
          ksalt |-> NoSalt, kdf |-> NoKey, kdf0 |-> NoKey,
          options |-> << >>, password |-> << >>]

(* Program constants *)
BackupsKept == 10
DefaultMaxFailedAttempts == 5
DefaultSessionTimeoutMinutes == 15
SecondsPerMinute == 60
MaxPasswordLength == 1000

-----------------------------------------------------------------------------
(* crypto.rs *)

\* CryptoManager::new
CryptoManager_new == [key |-> NoKey, salt |-> NoSalt]

\* Argon2id over (password, salt): deterministic, and modelled as collision free.
Argon2(master_password, salt) == << "argon2", master_password, salt >>

\* derive_key that keeps the salt a manager already holds
derive_key_keeping_salt(cm, master_password, salt) ==
    LET used == IF cm.salt = NoSalt THEN salt ELSE cm.salt
        key == Argon2(master_password, used)
    IN  [crypto |-> [key |-> key, salt |-> used], key |-> key]

\* CryptoManager::derive_key: returns the key and stores key and salt.
derive_key(cm, master_password, salt) ==
    LET key == Argon2(master_password, salt)
    IN  [crypto |-> [key |-> key, salt |-> salt], key |-> key]

\* CryptoManager::generate_key_and_salt, with the random salt as an input.
generate_key_and_salt(cm, master_password, salt) ==
    derive_key(cm, master_password, salt)

\* CryptoManager::hash_password, with the random salt as an input.
hash_password(master_password, salt) ==
    [salt |-> salt, digest |-> Argon2(master_password, salt)]

\* CryptoManager::verify_password: recompute under the hash's salt and compare.
verify_password(master_password, stored_hash) ==
    Argon2(master_password, stored_hash.salt) = stored_hash.digest

\* AES-256-GCM: the body is the plaintext under (key, nonce); the tag
\* authenticates (key, nonce, body).
GcmBody(key, nonce, data) == [k |-> key, n |-> nonce, pt |-> data]
GcmTag(key, nonce, body) == [tk |-> key, tn |-> nonce, tb |-> body]

\* encrypt_with_key that prepends a nonce other than the one it encrypted under
encrypt_with_key_other_nonce(data, key, nonce) ==
    LET body == GcmBody(key, nonce, data)
    IN  << "n0", body, GcmTag(key, nonce, body) >>

\* CryptoManager::encrypt_with_key, with the random nonce as an input:
\* nonce || ciphertext || tag.
encrypt_with_key(data, key, nonce) ==
    LET body == GcmBody(key, nonce, data)
    IN  << nonce, body, GcmTag(key, nonce, body) >>

\* CryptoManager::encrypt
encrypt(cm, data, nonce) ==
    IF cm.key = NoKey
    THEN [res |-> "CryptoError", out |-> << >>]
    ELSE [res |-> "ok", out |-> encrypt_with_key(data, cm.key, nonce)]

\* decrypt_with_key that does not verify the tag
decrypt_with_key_unverified(encrypted_data, key) ==
    IF Len(encrypted_data) < 2
    THEN [res |-> "CryptoError", out |-> << >>]
    ELSE LET nonce == Head(encrypted_data)
             ciphertext == Tail(encrypted_data)
         IN  [res |-> "ok",
              out |-> IF ciphertext[1].k = key /\ ciphertext[1].n = nonce
                      THEN ciphertext[1].pt
                      ELSE << "garbage" >>]

\* CryptoManager::decrypt_with_key
decrypt_with_key(encrypted_data, key) ==
    IF Len(encrypted_data) < 1
    THEN [res |-> "CryptoError", out |-> << >>]
    ELSE LET nonce == Head(encrypted_data)
             ciphertext == Tail(encrypted_data)
         IN  IF /\ Len(ciphertext) = 2
                /\ ciphertext[2] = GcmTag(key, nonce, ciphertext[1])
             THEN [res |-> "ok",
                   out |-> IF ciphertext[1].k = key /\ ciphertext[1].n = nonce
                           THEN ciphertext[1].pt
                           ELSE << "garbage" >>]
             ELSE [res |-> "CryptoError", out |-> << >>]

\* CryptoManager::decrypt
decrypt(cm, encrypted_data) ==
    IF cm.key = NoKey
    THEN [res |-> "CryptoError", out |-> << >>]
    ELSE decrypt_with_key(encrypted_data, cm.key)

\* CryptoManager::clear_key: the key goes, the salt stays.
clear_key(cm) == [cm EXCEPT !.key = NoKey]

\* CryptoManager::has_key
has_key(cm) == cm.key # NoKey

-----------------------------------------------------------------------------
(* models.rs *)

\* Vault::new
Vault_new(email) ==
    [metadata |-> [email |-> email, account_count |-> 0],
     accounts |-> << >>]

\* Vault::add_account
Vault_add_account(v, id, secret) ==
    LET accs == [i \in (DOMAIN v.accounts) \cup {id} |->
                    IF i = id THEN secret ELSE v.accounts[i]]
    IN  [metadata |-> [v.metadata EXCEPT !.account_count = Cardinality(DOMAIN accs)],
         accounts |-> accs]

\* Vault::remove_account, for an id that is present
Vault_remove_account(v, id) ==
    LET accs == [i \in (DOMAIN v.accounts) \ {id} |-> v.accounts[i]]
    IN  [metadata |-> [v.metadata EXCEPT !.account_count = Cardinality(DOMAIN accs)],
         accounts |-> accs]

\* The ids of a set, as a sequence in some order (the order a HashMap iterates in).
RECURSIVE SeqOf(_)
SeqOf(S) ==
    IF S = {} THEN << >>
    ELSE LET x == CHOOSE y \in S : TRUE IN << x >> \o SeqOf(S \ {x})

\* A serializer that skips the secret of every account
to_json_skipping_secrets(v) ==
    << v.metadata.email, v.metadata.account_count >> \o
    [i \in 1..Cardinality(DOMAIN v.accounts) |-> << SeqOf(DOMAIN v.accounts)[i], "" >>]

\* serde_json::to_string_pretty(vault): the fields, then one entry per account.
to_json(v) ==
    << v.metadata.email, v.metadata.account_count >> \o
    [i \in 1..Cardinality(DOMAIN v.accounts) |->
        << SeqOf(DOMAIN v.accounts)[i], v.accounts[SeqOf(DOMAIN v.accounts)[i]] >>]

\* serde_json::from_slice: fails on anything that is not a serialized vault.
WellFormedJson(j) ==
    /\ Len(j) >= 2
    /\ j[1] \in Emails
    /\ j[2] \in Nat
    /\ \A i \in 3..Len(j) : Len(j[i]) = 2

from_json(j) ==
    IF ~WellFormedJson(j)
    THEN [res |-> "SerializationError", out |-> None]
    ELSE [res |-> "ok",
          out |-> [metadata |-> [email |-> j[1], account_count |-> j[2]],
                   accounts |-> [id \in {j[i][1] : i \in 3..Len(j)} |->
                       (CHOOSE e \in {j[i] : i \in 3..Len(j)} : e[1] = id)[2]]]]

-----------------------------------------------------------------------------
(* storage.rs *)

\* VaultStorage::new: vault_dir.join("<name>.vault")
vault_path(name) == << "vault", name >>

\* save_vault writing in place: the temporary path is the vault's own path
temp_path_in_place(name) == << "vault", name >>

\* save_vault: self.vault_path.with_extension("tmp")
temp_path(name) == << "tmp", name >>

\* The export_path argument of export_vault and import_vault: one file
\* outside the vault's own paths
export_path == << "export", "file" >>

Paths == {vault_path(n) : n \in VaultNames} \cup {temp_path(n) : n \in VaultNames}
         \cup {export_path}

\* VaultStorage::vault_exists
vault_exists(d, name) == d.fs[vault_path(name)].exists

\* The operations of a save that the file system can refuse, and the error
\* each one is mapped to.
FailPoints ==
    {"none", "copy", "backup_perms", "cleanup",
     "create", "write_salt", "write_data", "sync", "rename", "perms"}

ErrorOf(fail) ==
    IF fail \in {"backup_perms", "cleanup", "perms"} THEN "IoError" ELSE "StorageError"

\* A call is a plan: the disk after each of its steps, in order, each with the
\* operation that can fail there ("-" for a state only a crash can leave).
\* RunPlan gives the disks the call goes through and what it returns.
RunPlan(d0, plan, fail, endRes) ==
    LET idx == {i \in 1..Len(plan) : plan[i].at = fail}
        upto == IF idx = {} THEN Len(plan) ELSE (CHOOSE i \in idx : TRUE) - 1
    IN  [trace |-> << d0 >> \o [i \in 1..upto |-> plan[i].d],
         res |-> IF idx = {} THEN endRes ELSE ErrorOf(fail)]

Last(seq) == seq[Len(seq)]

\* cleanup_old_backups: sort by modification time, newest first, and remove
\* everything after the first BackupsKept.  Equal times are ordered by name.
Newer(bk, a, b) ==
    \/ bk[a].mtime > bk[b].mtime
    \/ bk[a].mtime = bk[b].mtime /\ a > b

\* cleanup_old_backups without the reverse of the sort: the oldest are kept
cleanup_old_backups_oldest_first(bk) ==
    LET keep == {f \in DOMAIN bk :
                    Cardinality({g \in DOMAIN bk : Newer(bk, f, g)}) < BackupsKept}
    IN  [f \in keep |-> bk[f]]

cleanup_old_backups(bk) ==
    LET keep == {f \in DOMAIN bk :
                    Cardinality({g \in DOMAIN bk : Newer(bk, g, f)}) < BackupsKept}
    IN  [f \in keep |-> bk[f]]

\* The backup file name: "vault_backup_<%Y%m%d_%H%M%S>.vault", one per second.
backup_filename(t) == t

WriteBackup(bk, f, blocks, t) ==
    [g \in (DOMAIN bk) \cup {f} |->
        IF g = f THEN [data |-> blocks, mtime |-> t] ELSE bk[g]]

\* VaultStorage::create_backup, as a plan
create_backup(d, name, t) ==
    IF ~vault_exists(d, name)
    THEN << >>
    ELSE LET src == d.fs[vault_path(name)].data
             f == backup_filename(t)
             cut == [d EXCEPT !.backups = WriteBackup(d.backups, f, << >>, t)]
             copied == [d EXCEPT !.backups = WriteBackup(d.backups, f, src, t)]
             cleaned == [copied EXCEPT !.backups = cleanup_old_backups(copied.backups)]
         IN  << [at |-> "-", d |-> cut],
                [at |-> "copy", d |-> copied],
                [at |-> "backup_perms", d |-> copied],
                [at |-> "cleanup", d |-> cleaned] >>

\* The temp-file part of save_vault, as a plan
write_and_rename(d, name, salt, encrypted_data) ==
    LET tp == temp_path(name)
        vp == vault_path(name)
        full == << salt >> \o encrypted_data
        part == SubSeq(full, 1, Len(full) - 1)
        d1 == [d EXCEPT !.fs[tp] = File(<< >>)]
        d2 == [d EXCEPT !.fs[tp] = File(<< salt >>)]
        d3 == [d EXCEPT !.fs[tp] = File(part)]
        d4 == [d EXCEPT !.fs[tp] = File(full)]
        d5 == [d4 EXCEPT !.fs = [[q \in Paths |-> IF q = tp THEN NoFile ELSE d4.fs[q]]
                                    EXCEPT ![vp] = d4.fs[tp]]]
    IN  << [at |-> "create", d |-> d1],
           [at |-> "write_salt", d |-> d2],
           [at |-> "-", d |-> d3],
           [at |-> "write_data", d |-> d4],
           [at |-> "sync", d |-> d4],
           [at |-> "rename", d |-> d5],
           [at |-> "perms", d |-> d5] >>

\* VaultStorage::save_vault
save_vault(d, name, v, cm, t, nonce, fail) ==
    LET bplan == create_backup(d, name, t)
        b == RunPlan(d, bplan, fail, "ok")
        db == Last(b.trace)
        enc == encrypt(cm, to_json(v), nonce)
    IN  IF b.res # "ok" THEN b
        ELSE IF enc.res # "ok" THEN [trace |-> b.trace, res |-> enc.res]
        ELSE IF cm.salt = NoSalt THEN [trace |-> b.trace, res |-> "StorageError"]
        ELSE LET w == RunPlan(db, write_and_rename(db, name, cm.salt, enc.out), fail, "ok")
             IN  [trace |-> b.trace \o Tail(w.trace), res |-> w.res]

\* filename.ends_with("_<vault_name>.vault") for a backup file name: after the
\* last "_" of "vault_backup_<%Y%m%d_%H%M%S>.vault" comes the time of day, so
\* only a vault named like that time matches.
backup_name_ends_with(f, name) == name = ToString(backup_filename(f))

\* VaultStorage::delete_vault: removes the canonical file if it exists, then
\* every backup whose file name ends with "_<vault_name>.vault".
delete_vault(d, name) ==
    LET kept == {f \in DOMAIN d.backups : ~backup_name_ends_with(f, name)}
    IN  [d |-> [fs |-> [d.fs EXCEPT ![vault_path(name)] = NoFile],
                backups |-> [f \in kept |-> d.backups[f]]],
         res |-> "ok"]

\* load_vault that tells a wrong password (the tag is that of another key)
\* from damaged bytes
load_vault_telling_causes(d, name, master_password) ==
    IF ~vault_exists(d, name)
    THEN [res |-> "VaultNotFound", out |-> None, derived |-> FALSE]
    ELSE LET file_data == d.fs[vault_path(name)].data
         IN  IF Len(file_data) < 1
             THEN [res |-> "StorageError", out |-> None, derived |-> FALSE]
             ELSE LET encrypted_data == Tail(file_data)
                      key == derive_key(CryptoManager_new, master_password, file_data[1]).key
                      dec == decrypt_with_key(encrypted_data, key)
                      doc == from_json(dec.out)
                      sound == /\ Len(encrypted_data) = 3
                               /\ decrypt_with_key(encrypted_data, encrypted_data[3].tk).res = "ok"
                  IN  IF dec.res # "ok"
                      THEN [res |-> IF sound THEN "AuthenticationFailed" ELSE dec.res,
                            out |-> None, derived |-> TRUE]
                      ELSE [res |-> doc.res, out |-> doc.out, derived |-> TRUE]

\* VaultStorage::load_vault
load_vault(d, name, master_password) ==
    IF ~vault_exists(d, name)
    THEN [res |-> "VaultNotFound", out |-> None, derived |-> FALSE]
    ELSE LET file_data == d.fs[vault_path(name)].data
         IN  IF Len(file_data) < 1
             THEN [res |-> "StorageError", out |-> None, derived |-> FALSE]
             ELSE LET salt == file_data[1]
                      encrypted_data == Tail(file_data)
                      key == derive_key(CryptoManager_new, master_password, salt).key
                      dec == decrypt_with_key(encrypted_data, key)
                      doc == from_json(dec.out)
                  IN  IF dec.res # "ok"
                      THEN [res |-> dec.res, out |-> None, derived |-> TRUE]
                      ELSE [res |-> doc.res, out |-> doc.out, derived |-> TRUE]

-----------------------------------------------------------------------------
(* generator.rs: the character sets are cut down to two characters each,    *)
(* one of which is in an exclusion list; the random number generator is an  *)
(* input (seed), read once per draw.                                        *)

UPPERCASE == << "A", "O" >>
LOWERCASE == << "a", "l" >>
NUMBERS == << "2", "0" >>
SPECIAL == << "!", "{" >>
SIMILAR_CHARS == {"0", "O", "l"}
AMBIGUOUS_CHARS == {"{"}

\* PasswordGenerator::validate_options
validate_options(options) ==
    IF options.length = 0 THEN "InvalidInput"
    ELSE IF options.length > MaxPasswordLength THEN "InvalidInput"
    ELSE IF /\ ~options.include_uppercase /\ ~options.include_lowercase
            /\ ~options.include_numbers /\ ~options.include_special
         THEN "InvalidInput"
         ELSE "ok"

NotSimilar(c) == c \notin SIMILAR_CHARS
NotAmbiguous(c) == c \notin AMBIGUOUS_CHARS

\* PasswordGenerator::build_charset
build_charset(options) ==
    LET all == (IF options.include_uppercase THEN UPPERCASE ELSE << >>)
               \o (IF options.include_lowercase THEN LOWERCASE ELSE << >>)
               \o (IF options.include_numbers THEN NUMBERS ELSE << >>)
               \o (IF options.include_special THEN SPECIAL ELSE << >>)
        c1 == IF options.exclude_similar THEN SelectSeq(all, NotSimilar) ELSE all
    IN  IF options.exclude_ambiguous THEN SelectSeq(c1, NotAmbiguous) ELSE c1

\* PasswordGenerator::random_char_from, with the random number as an input
random_char_from(charset, r) == charset[(r % Len(charset)) + 1]

\* The loop of generate that fills the password up to options.length
RECURSIVE fill(_, _, _, _)
fill(password, charset, length, r) ==
    IF Len(password) < length
    THEN fill(Append(password, random_char_from(charset, r)), charset, length, r + 1)
    ELSE password

\* PasswordGenerator::shuffle_string: Fisher-Yates, i from the last index down
RECURSIVE shuffle_from(_, _, _)
shuffle_from(chars, i, r) ==
    IF i < 2 THEN chars
    ELSE LET j == ((r + i) % i) + 1
         IN  shuffle_from([chars EXCEPT ![i] = chars[j], ![j] = chars[i]], i - 1, r)

shuffle_string(chars, r) == shuffle_from(chars, Len(chars), r)

\* PasswordGenerator::generate
generate(options, seed) ==
    IF validate_options(options) # "ok"
    THEN [res |-> "InvalidInput", out |-> << >>]
    ELSE LET charset == build_charset(options)
             first == (IF options.include_uppercase
                       THEN << random_char_from(UPPERCASE, seed) >> ELSE << >>)
                      \o (IF options.include_lowercase
                          THEN << random_char_from(LOWERCASE, seed + 1) >> ELSE << >>)
                      \o (IF options.include_numbers
                          THEN << random_char_from(NUMBERS, seed + 2) >> ELSE << >>)
                      \o (IF options.include_special
                          THEN << random_char_from(SPECIAL, seed + 3) >> ELSE << >>)
         IN  IF charset = << >>
             THEN [res |-> "InvalidInput", out |-> << >>]
             ELSE [res |-> "ok",
                   out |-> shuffle_string(fill(first, charset, options.length, seed + 4),
                                          seed)]

-----------------------------------------------------------------------------
(* auth.rs *)

\* AuthSession::new
AuthSession_new(timeout_minutes, t) ==
    [created_at |-> t,
     expires_at |-> t + timeout_minutes * SecondsPerMinute,
     is_active |-> TRUE,
     failed_attempts |-> 0,
     last_activity |-> t]

\* is_valid that still accepts the session at the instant it expires
is_valid_at_expiry(s, t) == s.is_active /\ t <= s.expires_at

\* AuthSession::is_valid
is_valid(s, t) == s.is_active /\ t < s.expires_at

\* update_activity that also counts a failed attempt
AuthSession_update_activity_counting(s, t) ==
    [s EXCEPT !.last_activity = t, !.failed_attempts = s.failed_attempts + 1]

\* AuthSession::update_activity
AuthSession_update_activity(s, t) == [s EXCEPT !.last_activity = t]

\* extend_timeout that adds the timeout to the old expiry time
extend_timeout_from_expiry(s, timeout_minutes) ==
    [s EXCEPT !.expires_at = s.expires_at + timeout_minutes * SecondsPerMinute]

\* AuthSession::extend_timeout
extend_timeout(s, timeout_minutes) ==
    [s EXCEPT !.expires_at = s.last_activity + timeout_minutes * SecondsPerMinute]

\* AuthSession::record_failed_attempt
record_failed_attempt(s) == [s EXCEPT !.failed_attempts = s.failed_attempts + 1]

\* AuthSession::is_locked_out
AuthSession_is_locked_out(s, max_attempts) == s.failed_attempts >= max_attempts

\* AuthManager::is_locked_out
is_locked_out(sess, max_attempts) ==
    IsSome(sess) /\ AuthSession_is_locked_out(Unwrap(sess), max_attempts)

\* AuthManager::is_authenticated
is_authenticated(sess, t) == IsSome(sess) /\ is_valid(Unwrap(sess), t)

\* AuthManager::get_session
get_session(sess, t) == IF is_authenticated(sess, t) THEN sess ELSE None

\* AuthManager::failed_attempts
failed_attempts(sess) == IF IsSome(sess) THEN Unwrap(sess).failed_attempts ELSE 0

\* AuthManager::get_crypto
get_crypto(sess, cm, t) ==
    IF ~is_authenticated(sess, t)
    THEN [res |-> "AuthenticationFailed", out |-> CryptoManager_new]
    ELSE [res |-> "ok", out |-> cm]

\* AuthManager::get_crypto_mut
get_crypto_mut(sess, cm, t) ==
    IF ~is_authenticated(sess, t)
    THEN [res |-> "AuthenticationFailed", out |-> CryptoManager_new]
    ELSE [res |-> "ok", out |-> cm]

\* AuthManager::set_crypto_key: checks the session and derives nothing.
set_crypto_key(sess, cm, master_password, t) ==
    IF ~is_authenticated(sess, t)
    THEN [res |-> "AuthenticationFailed", crypto |-> cm]
    ELSE [res |-> "ok", crypto |-> cm]

\* AuthManager::time_until_expiry
time_until_expiry(sess, t) ==
    IF IsSome(sess) /\ is_valid(Unwrap(sess), t) /\ t < Unwrap(sess).expires_at
    THEN Some(Unwrap(sess).expires_at - t)
    ELSE None

\* AuthManager::authenticate, with the random salt of hash_password as an input.
\* The password is verified against the hash just made of it.
authenticate(sess, max_attempts, timeout_minutes, master_password, hsalt, t) ==
    IF is_locked_out(sess, max_attempts)
    THEN [session |-> sess, res |-> "AuthenticationFailed", hashed |-> FALSE]
    ELSE LET password_hash == hash_password(master_password, hsalt)
             valid == verify_password(master_password, password_hash)
         IN  IF valid
             THEN [session |-> Some(AuthSession_new(timeout_minutes, t)),
                   res |-> "ok", hashed |-> TRUE]
             ELSE [session |->
                     IF IsSome(sess)
                     THEN Some(record_failed_attempt(Unwrap(sess)))
                     ELSE Some(record_failed_attempt(AuthSession_new(timeout_minutes, t))),
                   res |-> "AuthenticationFailed", hashed |-> TRUE]

\* logout that drops the session but leaves the key in the crypto context
logout_keeping_key(sess, cm) == [session |-> None, crypto |-> cm]

\* AuthManager::logout
logout(sess, cm) == [session |-> None, crypto |-> clear_key(cm)]

\* The accessor vault.rs uses in init_vault and save_vault: the crypto context,
\* with no check of the session.
get_crypto_for_init(cm) == cm

-----------------------------------------------------------------------------
(* vault.rs: each call gives the PassMan fields after it, the disks it went *)
(* through, and what it returned.                                           *)

Mem(v, sess, cm) == [vault |-> v, session |-> sess, crypto |-> cm]

Outcome(mem, trace, res, derived, hashed) ==
    [mem |-> mem, trace |-> trace, res |-> res, derived |-> derived, hashed |-> hashed]

\* PassMan::save_vault
PassMan_save_vault(mem, d, name, t, nonce, fail) ==
    IF ~IsSome(mem.vault)
    THEN [trace |-> << d >>, res |-> "AuthenticationFailed"]
    ELSE save_vault(d, name, Unwrap(mem.vault), get_crypto_for_init(mem.crypto), t, nonce, fail)

\* init_vault without the check that the vault does not exist yet
init_vault_unchecked(mem, d, name, email, master_password, salt, t, nonce, fail) ==
    LET v == Vault_new(email)
        cm == generate_key_and_salt(get_crypto_for_init(mem.crypto),
                                    master_password, salt).crypto
        sv == save_vault(d, name, v, get_crypto_for_init(cm), t, nonce, fail)
    IN  Outcome(Mem(IF sv.res = "ok" THEN Some(v) ELSE mem.vault, mem.session, cm),
                sv.trace, sv.res, TRUE, FALSE)

\* PassMan::init_vault
init_vault(mem, d, name, email, master_password, salt, t, nonce, fail) ==
    IF vault_exists(d, name)
    THEN Outcome(mem, << d >>, "VaultNotFound", FALSE, FALSE)
    ELSE LET v == Vault_new(email)
             cm == generate_key_and_salt(get_crypto_for_init(mem.crypto),
                                         master_password, salt).crypto
             sv == save_vault(d, name, v, get_crypto_for_init(cm), t, nonce, fail)
         IN  Outcome(Mem(IF sv.res = "ok" THEN Some(v) ELSE mem.vault, mem.session, cm),
                     sv.trace, sv.res, TRUE, FALSE)

\* open_vault that authenticates before it loads the vault
open_vault_session_first(mem, d, name, max_attempts, timeout_minutes, master_password, hsalt, t) ==
    IF ~vault_exists(d, name)
    THEN Outcome(mem, << d >>, "VaultNotFound", FALSE, FALSE)
    ELSE LET ld == load_vault(d, name, master_password)
             au == authenticate(mem.session, max_attempts, timeout_minutes,
                                master_password, hsalt, t)
         IN  IF au.res # "ok"
             THEN Outcome(Mem(mem.vault, au.session, mem.crypto), << d >>, au.res,
                          FALSE, au.hashed)
             ELSE IF ld.res # "ok"
             THEN Outcome(Mem(mem.vault, au.session, mem.crypto), << d >>, ld.res,
                          ld.derived, au.hashed)
             ELSE Outcome(Mem(Some(ld.out), au.session, mem.crypto), << d >>, "ok",
                          ld.derived, au.hashed)

\* PassMan::open_vault
open_vault(mem, d, name, max_attempts, timeout_minutes, master_password, hsalt, t) ==
    IF ~vault_exists(d, name)
    THEN Outcome(mem, << d >>, "VaultNotFound", FALSE, FALSE)
    ELSE LET ld == load_vault(d, name, master_password)
             au == authenticate(mem.session, max_attempts, timeout_minutes,
                                master_password, hsalt, t)
         IN  IF ld.res # "ok"
             THEN Outcome(mem, << d >>, ld.res, ld.derived, FALSE)
             ELSE IF au.res # "ok"
             THEN Outcome(Mem(mem.vault, au.session, mem.crypto), << d >>, au.res,
                          ld.derived, au.hashed)
             ELSE Outcome(Mem(Some(ld.out), au.session, mem.crypto), << d >>, "ok",
                          ld.derived, au.hashed)

\* PassMan::close_vault
close_vault(mem) ==
    LET lo == logout(mem.session, mem.crypto)
    IN  Mem(None, lo.session, lo.crypto)

\* PassMan::add_account, with the random id of the account as an input
add_account(mem, d, name, id, secret, t, nonce, fail) ==
    IF ~IsSome(mem.vault)
    THEN Outcome(mem, << d >>, "AuthenticationFailed", FALSE, FALSE)
    ELSE LET m2 == [mem EXCEPT !.vault = Some(Vault_add_account(Unwrap(mem.vault), id, secret))]
             sv == PassMan_save_vault(m2, d, name, t, nonce, fail)
         IN  Outcome(m2, sv.trace, sv.res, FALSE, FALSE)

\* PassMan::update_account
update_account(mem, d, name, id, secret, t, nonce, fail) ==
    IF ~IsSome(mem.vault)
    THEN Outcome(mem, << d >>, "AuthenticationFailed", FALSE, FALSE)
    ELSE IF id \notin DOMAIN Unwrap(mem.vault).accounts
    THEN Outcome(mem, << d >>, "AccountNotFound", FALSE, FALSE)
    ELSE LET m2 == [mem EXCEPT !.vault[1].accounts[id] = secret]
             sv == PassMan_save_vault(m2, d, name, t, nonce, fail)
         IN  Outcome(m2, sv.trace, sv.res, FALSE, FALSE)

\* PassMan::delete_account
delete_account(mem, d, name, id, t, nonce, fail) ==
    IF ~IsSome(mem.vault)
    THEN Outcome(mem, << d >>, "AuthenticationFailed", FALSE, FALSE)
    ELSE IF id \notin DOMAIN Unwrap(mem.vault).accounts
    THEN Outcome(mem, << d >>, "AccountNotFound", FALSE, FALSE)
    ELSE LET m2 == [mem EXCEPT !.vault = Some(Vault_remove_account(Unwrap(mem.vault), id))]
             sv == PassMan_save_vault(m2, d, name, t, nonce, fail)
         IN  Outcome(m2, sv.trace, sv.res, FALSE, FALSE)

\* VaultStorage::import_vault: the import file is read, decrypted with the
\* context's key and deserialized
storage_import_vault(cm, import_file) ==
    IF ~import_file.exists
    THEN [res |-> "StorageError", out |-> None]
    ELSE LET dec == decrypt(cm, import_file.data)
             doc == from_json(dec.out)
         IN  IF dec.res # "ok" THEN [res |-> dec.res, out |-> None]
             ELSE [res |-> doc.res, out |-> doc.out]

\* PassMan::import_vault
import_vault(mem, d, name, import_file, t, nonce, fail) ==
    LET gc == get_crypto(mem.session, mem.crypto, t)
        im == storage_import_vault(gc.out, import_file)
        m2 == [mem EXCEPT !.vault = Some(im.out)]
        sv == PassMan_save_vault(m2, d, name, t, nonce, fail)
    IN  IF gc.res # "ok" THEN Outcome(mem, << d >>, gc.res, FALSE, FALSE)
        ELSE IF im.res # "ok" THEN Outcome(mem, << d >>, im.res, FALSE, FALSE)
        ELSE Outcome(m2, sv.trace, sv.res, FALSE, FALSE)

\* VaultStorage::export_vault, with the random nonce as an input: the
\* encrypted document, without the salt, written to export_path.
storage_export_vault(d, v, cm, nonce) ==
    LET enc == encrypt(cm, to_json(v), nonce)
    IN  IF enc.res # "ok" THEN [trace |-> << d >>, res |-> enc.res]
        ELSE [trace |-> << d, [d EXCEPT !.fs[export_path] = File(enc.out)] >>,
              res |-> "ok"]

\* PassMan::export_vault
export_vault(mem, d, t, nonce) ==
    IF ~IsSome(mem.vault)
    THEN Outcome(mem, << d >>, "AuthenticationFailed", FALSE, FALSE)
    ELSE LET gc == get_crypto(mem.session, mem.crypto, t)
             ex == storage_export_vault(d, Unwrap(mem.vault), gc.out, nonce)
         IN  IF gc.res # "ok" THEN Outcome(mem, << d >>, gc.res, FALSE, FALSE)
             ELSE Outcome(mem, ex.trace, ex.res, FALSE, FALSE)

\* PassMan::is_vault_open
is_vault_open(mem, t) == IsSome(mem.vault) /\ is_authenticated(mem.session, t)

-----------------------------------------------------------------------------
(* The state machine *)

Disk == [fs |-> fs, backups |-> backups]
Memory == Mem(vault, session, crypto)

Event(op, res, pw, derived, hashed) ==
    [op |-> op, res |-> res, pw |-> pw, derived |-> derived, hashed |-> hashed]

\* The password a complete vault file was encrypted under
MasterOf(file) == file.data[3].k[2]
Complete(file) ==
    /\ file.exists
    /\ Len(file.data) = 4
    /\ file.data[1] \in Salts
    /\ \E p \in Passwords, n \in Nonces, e \in Emails :
         \E j \in {file.data[3].pt} :
            Tail(file.data) = encrypt_with_key(j, Argon2(p, file.data[1]), n)

\* A wrong password for the vault on disk
IsWrong(d, name, p) ==
    /\ Complete(d.fs[vault_path(name)])
    /\ MasterOf(d.fs[vault_path(name)]) # p

CountWrong(w, max_attempts) == IF w < max_attempts THEN w + 1 ELSE w

\* A vault made earlier, and the backups earlier saves of it left
OldFile ==
    File(<< "s1" >> \o encrypt_with_key(to_json(Vault_new("e@x")), Argon2("pw", "s1"), "n1"))

OldBackups ==
    [f \in (0 - BackupsKept)..(0 - 1) |-> [data |-> OldFile.data, mtime |-> f]]

NoBackups == [f \in {} |-> [data |-> << >>, mtime |-> 0]]

\* AuthManager::default
AuthManager_default ==
    /\ max_failed_attempts = DefaultMaxFailedAttempts
    /\ session_timeout_minutes = DefaultSessionTimeoutMinutes

\* PassMan::new, but for the session manager's configuration
NewPassMan ==
    /\ vault = None
    /\ session = None
    /\ crypto = CryptoManager_new
    /\ vault_name = "main"
    /\ now = 0
    /\ advances = 0
    /\ wrongs = 0
    /\ ev = Event("new", "ok", "-", FALSE, FALSE)

\* PassMan::new in an empty vault directory
Init ==
    /\ fs = [q \in Paths |-> NoFile]
    /\ backups = NoBackups
    /\ first_salt = NoSalt
    /\ msg = NoMsg
    /\ NewPassMan
    /\ AuthManager_default

Config == << vault_name, max_failed_attempts, session_timeout_minutes >>

\* A call returns: the disk and the PassMan fields become what it left.
Return(r, op, pw) ==
    /\ fs' = Last(r.trace).fs
    /\ backups' = Last(r.trace).backups
    /\ vault' = r.mem.vault
    /\ session' = r.mem.session
    /\ crypto' = r.mem.crypto
    /\ ev' = Event(op, r.res, pw, r.derived, r.hashed)
    /\ UNCHANGED << Config, msg, now, advances >>

InitVaultIn(PW, SL, NC, FL) ==
    \E email \in Emails, p \in PW, salt \in SL, nonce \in NC, fail \in FL :
        /\ Return(init_vault(Memory, Disk, vault_name, email, p, salt, now, nonce, fail),
                  "init_vault", p)
        /\ first_salt' = IF first_salt = NoSalt /\ ~vault_exists(Disk, vault_name)
                         THEN salt ELSE first_salt
        /\ UNCHANGED wrongs

OpenVaultIn(PW) ==
    \E p \in PW, hsalt \in Salts :
        /\ Return(open_vault(Memory, Disk, vault_name, max_failed_attempts,
                             session_timeout_minutes, p, hsalt, now),
                  "open_vault", p)
        /\ UNCHANGED << wrongs, first_salt >>

CloseVault ==
    /\ vault' = close_vault(Memory).vault
    /\ session' = close_vault(Memory).session
    /\ crypto' = close_vault(Memory).crypto
    /\ wrongs' = 0
    /\ ev' = Event("close_vault", "ok", "-", FALSE, FALSE)
    /\ UNCHANGED << fs, backups, Config, msg, now, advances, first_salt >>

\* Uuid::new_v4 gives an id no account has.
FreshIds == {i \in Ids : IsSome(vault) => i \notin DOMAIN Unwrap(vault).accounts}

AddAccountIn(SC, NC, FL) ==
    \E id \in FreshIds, secret \in SC, nonce \in NC, fail \in FL :
        /\ Return(add_account(Memory, Disk, vault_name, id, secret, now, nonce, fail),
                  "add_account", "-")
        /\ UNCHANGED << wrongs, first_salt >>

UpdateAccountIn(SC, NC, FL) ==
    \E id \in Ids, secret \in SC, nonce \in NC, fail \in FL :
        /\ Return(update_account(Memory, Disk, vault_name, id, secret, now, nonce, fail),
                  "update_account", "-")
        /\ UNCHANGED << wrongs, first_salt >>

DeleteAccountIn(NC, FL) ==
    \E id \in Ids, nonce \in NC, fail \in FL :
        /\ Return(delete_account(Memory, Disk, vault_name, id, now, nonce, fail),
                  "delete_account", "-")
        /\ UNCHANGED << wrongs, first_salt >>

\* The files import_vault can be pointed at: none, or an export of a fresh
\* vault made under some password and salt
ImportFiles(PW, SL, NC) ==
    {NoFile} \cup
    {File(encrypt_with_key(to_json(Vault_new(e)), Argon2(p, salt), n)) :
        e \in Emails, p \in PW, salt \in SL, n \in NC}

ImportVaultIn(PW, SL, NC, FL) ==
    \E import_file \in ImportFiles(PW, SL, NC), nonce \in NC, fail \in FL :
        /\ Return(import_vault(Memory, Disk, vault_name, import_file, now, nonce, fail),
                  "import_vault", "-")
        /\ UNCHANGED << wrongs, first_salt >>

\* PassMan::update_activity and AuthManager::update_activity
UpdateActivity ==
    /\ session' = IF IsSome(session)
                  THEN Some(AuthSession_update_activity(Unwrap(session), now))
                  ELSE session
    /\ ev' = Event("update_activity", "ok", "-", FALSE, FALSE)
    /\ UNCHANGED << fs, backups, vault, crypto, Config, msg, now, advances, wrongs, first_salt >>

\* Time passes.
AdvanceBy(steps, max) ==
    \E step \in steps :
        /\ advances < max
        /\ now' = now + step
        /\ advances' = advances + 1
        /\ ev' = Event("advance", "ok", "-", FALSE, FALSE)
        /\ UNCHANGED << fs, backups, vault, session, crypto, Config, msg, wrongs, first_salt >>

\* The calls that write the vault file, with every input they can be given
SavingCalls(PW, SL, SC, NC) ==
    {init_vault(Memory, Disk, vault_name, email, p, salt, now, nonce, "none") :
        email \in Emails, p \in PW, salt \in SL, nonce \in NC}
    \cup
    {add_account(Memory, Disk, vault_name, id, secret, now, nonce, "none") :
        id \in FreshIds, secret \in SC, nonce \in NC}
    \cup
    {update_account(Memory, Disk, vault_name, id, secret, now, nonce, "none") :
        id \in Ids, secret \in SC, nonce \in NC}
    \cup
    {delete_account(Memory, Disk, vault_name, id, now, nonce, "none") :
        id \in Ids, nonce \in NC}
    \cup
    {import_vault(Memory, Disk, vault_name, import_file, now, nonce, "none") :
        import_file \in ImportFiles(PW, SL, NC), nonce \in NC}

\* The process stops after some step of a call; the PassMan made next is
\* PassMan::new's: no document, no session, no key.
CrashIn(PW, SL, SC, NC) ==
    \E r \in SavingCalls(PW, SL, SC, NC) :
        \E i \in 1..Len(r.trace) :
            /\ Len(r.trace) > 1
            /\ fs' = r.trace[i].fs
            /\ backups' = r.trace[i].backups
            /\ vault' = None
            /\ session' = None
            /\ crypto' = CryptoManager_new
            /\ wrongs' = 0
            /\ ev' = Event("crash", "-", "-", FALSE, FALSE)
            /\ first_salt' = IF first_salt = NoSalt /\ r.derived
                             THEN r.mem.crypto.salt ELSE first_salt
            /\ UNCHANGED << Config, msg, now, advances >>

\* What one changed byte can turn block i of encrypt's output
\* (nonce, ciphertext, tag) into: another value of the same length
AlteredBlocks(encrypted_data, i) ==
    IF i = 1 THEN (Nonces \cup {"n?"}) \ {encrypted_data[1]}
    ELSE IF i = 2 THEN {[encrypted_data[2] EXCEPT !.pt = << "garbage" >>]}
    ELSE {[encrypted_data[3] EXCEPT !.tn = "t?"]}

\* The same for block i of a vault file (salt, nonce, ciphertext, tag)
CorruptBlocks(file_data, i) ==
    IF i = 1 THEN (Salts \cup {"s?"}) \ {file_data[1]}
    ELSE AlteredBlocks(Tail(file_data), i - 1)

\* Bytes of the vault file are damaged on disk, its length kept.
CorruptFile ==
    \E i \in IF Len(fs[vault_path(vault_name)].data) = 4 THEN 1..4 ELSE {} :
        \E b \in CorruptBlocks(fs[vault_path(vault_name)].data, i) :
            /\ fs[vault_path(vault_name)].exists
            /\ fs' = [fs EXCEPT ![vault_path(vault_name)].data[i] = b]
            /\ ev' = Event("corrupt", "-", "-", FALSE, FALSE)
            /\ UNCHANGED << backups, vault, session, crypto, Config, msg, now, advances,
                            wrongs, first_salt >>

\* The PassMan is dropped (Drop runs close_vault) and PassMan::new makes another.
Restart ==
    /\ vault' = None
    /\ session' = None
    /\ crypto' = CryptoManager_new
    /\ wrongs' = 0
    /\ ev' = Event("new", "ok", "-", FALSE, FALSE)
    /\ UNCHANGED << fs, backups, Config, msg, now, advances, first_salt >>

-----------------------------------------------------------------------------
(* Spec: one PassMan and its vault, from an empty vault directory.  The     *)
(* vault is made with either password and the salt "s1"; every file        *)
(* operation succeeds; the clock moves in steps of one session timeout.     *)

MasterPasswords == {"pw"}
OneSalt == {"s1"}
OneNonce == {"n1"}
NoFailure == {"none"}
TimeoutSteps == {900}

InitVault == InitVaultIn(Passwords, OneSalt, OneNonce, NoFailure)
OpenVault == OpenVaultIn(Passwords)
AddAccount == AddAccountIn(Secrets, OneNonce, NoFailure)
UpdateAccount == UpdateAccountIn(Secrets, OneNonce, NoFailure)
DeleteAccount == DeleteAccountIn(OneNonce, NoFailure)
Advance == AdvanceBy(TimeoutSteps, MaxAdvances)

Next ==
    \/ InitVault
    \/ OpenVault
    \/ CloseVault
    \/ AddAccount
    \/ UpdateAccount
    \/ DeleteAccount
    \/ UpdateActivity
    \/ Advance
    \/ Restart

Spec == Init /\ [][Next]_vars

-----------------------------------------------------------------------------
(* SpecStore: the vault store under crashes and refused file operations,    *)
(* from an empty vault directory, from one that holds an earlier vault and  *)
(* the backups of its saves, or from one where only those backups are left. *)
(* The clock moves in seconds.                                              *)

OneSecret == {"abc"}
SecondSteps == {1}

SomeFailures == {"none", "write_data", "perms"}

\* An earlier vault may have been removed with its backups left behind.
InitStore ==
    /\ fs \in {[q \in Paths |-> NoFile],
               [q \in Paths |-> IF q = vault_path("main") THEN OldFile ELSE NoFile]}
    /\ backups \in {NoBackups, OldBackups}
    /\ fs[vault_path("main")].exists => backups = OldBackups
    /\ first_salt = IF fs[vault_path("main")].exists THEN OldFile.data[1] ELSE NoSalt
    /\ msg = NoMsg
    /\ NewPassMan
    /\ AuthManager_default

StoreInitVault == InitVaultIn(MasterPasswords, Salts, OneNonce, SomeFailures)
StoreOpenVault == OpenVaultIn(MasterPasswords)
StoreAddAccount == AddAccountIn(OneSecret, OneNonce, SomeFailures)
StoreDeleteAccount == DeleteAccountIn(OneNonce, SomeFailures)
StoreImportVault == ImportVaultIn(MasterPasswords, Salts, OneNonce, SomeFailures)
StoreAdvance == AdvanceBy(SecondSteps, MaxSeconds)
StoreCrash == CrashIn(MasterPasswords, Salts, OneSecret, OneNonce)

NextStore ==
    \/ StoreInitVault
    \/ StoreOpenVault
    \/ StoreAddAccount
    \/ StoreDeleteAccount
    \/ StoreImportVault
    \/ StoreAdvance
    \/ StoreCrash
    \/ Restart

SpecStore == InitStore /\ [][NextStore]_vars

-----------------------------------------------------------------------------
(* SpecAuth: an AuthManager on its own, made by AuthManager::new with any   *)
(* limit and timeout, for a vault whose master password is "pw".            *)

CorrectPassword == "pw"
AttemptLimits == {0, 1, 3, 5}
TimeoutMinutes == {0, 15}
AuthSteps == {1, 900}

\* AuthManager::new
AuthManager_new(limits, timeouts) ==
    /\ max_failed_attempts \in limits
    /\ session_timeout_minutes \in timeouts

InitAuth ==
    /\ fs = [q \in Paths |-> NoFile]
    /\ backups = NoBackups
    /\ first_salt = NoSalt
    /\ msg = NoMsg
    /\ NewPassMan
    /\ AuthManager_new(AttemptLimits, TimeoutMinutes)

Authenticate ==
    \E p \in Passwords, hsalt \in Salts :
        LET r == authenticate(session, max_failed_attempts, session_timeout_minutes,
                              p, hsalt, now)
        IN  /\ session' = r.session
            /\ ev' = Event("authenticate", r.res, p, FALSE, r.hashed)
            /\ wrongs' = IF p # CorrectPassword
                         THEN CountWrong(wrongs, max_failed_attempts)
                         ELSE IF r.res = "ok" THEN 0 ELSE wrongs
            /\ UNCHANGED << fs, backups, vault, crypto, Config, msg, now, advances, first_salt >>

ExtendSession ==
    \E timeout_minutes \in TimeoutMinutes :
        /\ session' = IF IsSome(session)
                      THEN Some(extend_timeout(Unwrap(session), timeout_minutes))
                      ELSE session
        /\ ev' = Event("extend_session", "ok", "-", FALSE, FALSE)
        /\ UNCHANGED << fs, backups, vault, crypto, Config, msg, now, advances, wrongs,
                        first_salt >>

Logout ==
    /\ session' = logout(session, crypto).session
    /\ crypto' = logout(session, crypto).crypto
    /\ wrongs' = 0
    /\ ev' = Event("logout", "ok", "-", FALSE, FALSE)
    /\ UNCHANGED << fs, backups, vault, Config, msg, now, advances, first_salt >>

AuthAdvance == AdvanceBy(AuthSteps, MaxAdvances)

NextAuth ==
    \/ Authenticate
    \/ UpdateActivity
    \/ ExtendSession
    \/ Logout
    \/ AuthAdvance

SpecAuth == InitAuth /\ [][NextAuth]_vars

-----------------------------------------------------------------------------
(* SpecConfig: a PassMan whose session manager has a configured limit.      *)

ConfigInit ==
    /\ fs = [q \in Paths |-> NoFile]
    /\ backups = NoBackups
    /\ first_salt = NoSalt
    /\ msg = NoMsg
    /\ NewPassMan
    /\ AuthManager_new(AttemptLimits, {DefaultSessionTimeoutMinutes})

NextConfig ==
    \/ InitVault
    \/ OpenVault
    \/ CloseVault
    \/ UpdateActivity
    \/ Advance
    \/ Restart

SpecConfig == ConfigInit /\ [][NextConfig]_vars

-----------------------------------------------------------------------------
(* SpecTamper: a PassMan and a vault made with the password "pw", whose     *)
(* file can be damaged on disk between calls.                               *)

TamperInitVault == InitVaultIn(MasterPasswords, OneSalt, OneNonce, NoFailure)
TamperAddAccount == AddAccountIn(OneSecret, OneNonce, NoFailure)

NextTamper ==
    \/ TamperInitVault
    \/ OpenVault
    \/ TamperAddAccount
    \/ CorruptFile
    \/ Restart

SpecTamper == Init /\ [][NextTamper]_vars

-----------------------------------------------------------------------------
(* SpecCrypto: a CryptoManager and a caller that derives keys, encrypts,   *)
(* decrypts, and whose encrypted bytes can be changed or cut in between.   *)

Plaintexts == {<< >>, << "a" >>, << "a", "b" >>}
CryptoKeys == {Argon2(p, "s1") : p \in Passwords}

InitCrypto ==
    /\ fs = [q \in Paths |-> NoFile]
    /\ backups = NoBackups
    /\ first_salt = NoSalt
    /\ msg = NoMsg
    /\ NewPassMan
    /\ AuthManager_default

DeriveKey ==
    \E p \in Passwords, salt \in Salts :
        LET r == derive_key(crypto, p, salt)
        IN  /\ crypto' = r.crypto
            /\ msg' = [msg EXCEPT !.ksalt = salt, !.kdf = r.key, !.kdf0 = msg.kdf]
            /\ ev' = Event("derive_key", "ok", p, TRUE, FALSE)
            /\ UNCHANGED << fs, backups, vault, session, Config, now, advances,
                            wrongs, first_salt >>

ClearKey ==
    /\ crypto' = clear_key(crypto)
    /\ ev' = Event("clear_key", "ok", "-", FALSE, FALSE)
    /\ UNCHANGED << fs, backups, vault, session, Config, msg, now, advances,
                    wrongs, first_salt >>

EncryptWithKey ==
    \E data \in Plaintexts, key \in CryptoKeys, nonce \in Nonces :
        LET out == encrypt_with_key(data, key, nonce)
        IN  /\ msg' = [msg EXCEPT !.plain = data, !.key = key, !.sent = out,
                                   !.bytes = out, !.dkey = NoKey, !.res = "-",
                                   !.out = << >>]
            /\ ev' = Event("encrypt_with_key", "ok", "-", FALSE, FALSE)
            /\ UNCHANGED << fs, backups, vault, session, crypto, Config, now,
                            advances, wrongs, first_salt >>

\* One part of the encrypted bytes is changed, the length kept
AlterBytes ==
    \E i \in IF Len(msg.bytes) = 3 /\ msg.bytes = msg.sent THEN 1..3 ELSE {} :
        \E b \in AlteredBlocks(msg.sent, i) :
            /\ msg' = [msg EXCEPT !.bytes = [msg.sent EXCEPT ![i] = b],
                                   !.dkey = NoKey, !.res = "-", !.out = << >>]
            /\ ev' = Event("alter", "-", "-", FALSE, FALSE)
            /\ UNCHANGED << fs, backups, vault, session, crypto, Config, now,
                            advances, wrongs, first_salt >>

\* The encrypted bytes are cut: to nothing, to the nonce, or before the tag
CutBytes ==
    \E n \in 0..2 :
        /\ Len(msg.sent) = 3
        /\ msg.bytes = msg.sent
        /\ msg' = [msg EXCEPT !.bytes = SubSeq(msg.sent, 1, n),
                               !.dkey = NoKey, !.res = "-", !.out = << >>]
        /\ ev' = Event("cut", "-", "-", FALSE, FALSE)
        /\ UNCHANGED << fs, backups, vault, session, crypto, Config, now,
                        advances, wrongs, first_salt >>

DecryptWithKey ==
    \E key \in CryptoKeys :
        LET r == decrypt_with_key(msg.bytes, key)
        IN  /\ msg.sent # << >>
            /\ msg' = [msg EXCEPT !.dkey = key, !.res = r.res, !.out = r.out]
            /\ ev' = Event("decrypt_with_key", r.res, "-", FALSE, FALSE)
            /\ UNCHANGED << fs, backups, vault, session, crypto, Config, now,
                            advances, wrongs, first_salt >>

NextCrypto ==
    \/ DeriveKey
    \/ ClearKey
    \/ EncryptWithKey
    \/ AlterBytes
    \/ CutBytes
    \/ DecryptWithKey

SpecCrypto == InitCrypto /\ [][NextCrypto]_vars

-----------------------------------------------------------------------------
(* SpecExport: a PassMan that exports its document to a file and imports   *)
(* that file again; every file operation succeeds.                         *)

ExportVault ==
    \E nonce \in Nonces :
        /\ Return(export_vault(Memory, Disk, now, nonce), "export_vault", "-")
        /\ UNCHANGED << wrongs, first_salt >>

ImportExported ==
    \E nonce \in OneNonce, fail \in NoFailure :
        /\ Return(import_vault(Memory, Disk, vault_name, fs[export_path], now, nonce, fail),
                  "import_vault", "-")
        /\ UNCHANGED << wrongs, first_salt >>

ExportInitVault == InitVaultIn(MasterPasswords, OneSalt, OneNonce, NoFailure)
ExportAddAccount == AddAccountIn(Secrets, OneNonce, NoFailure)

NextExport ==
    \/ ExportInitVault
    \/ OpenVault
    \/ CloseVault
    \/ ExportAddAccount
    \/ DeleteAccount
    \/ ExportVault
    \/ ImportExported
    \/ Advance
    \/ Restart

SpecExport == Init /\ [][NextExport]_vars

-----------------------------------------------------------------------------
(* SpecShared: two vaults under the same vault directory, used one after   *)
(* the other by PassMan instances, and deleted.  Each vault has its own    *)
(* salt, so a backup tells by its first block which vault it is a copy of. *)

SaltFor(name) == IF name = "main" THEN "s1" ELSE "s2"

\* The backup files that are copies of the vault file of this vault
BackupsOf(bk, name) ==
    {f \in DOMAIN bk : Len(bk[f].data) >= 1 /\ bk[f].data[1] = SaltFor(name)}

SharedInitVault == InitVaultIn(MasterPasswords, {SaltFor(vault_name)}, OneNonce, NoFailure)
SharedAddAccount == AddAccountIn(OneSecret, OneNonce, NoFailure)
SharedAdvance == AdvanceBy(SecondSteps, MaxSeconds)

\* PassMan::delete_vault(vault_name), a function without self
DeleteVault ==
    \E name \in VaultNames :
        LET r == delete_vault(Disk, name)
        IN  /\ fs' = r.d.fs
            /\ backups' = r.d.backups
            /\ ev' = Event("delete_vault", r.res, name, FALSE, FALSE)
            /\ UNCHANGED << vault, session, crypto, Config, msg, now, advances,
                            wrongs, first_salt >>

\* The PassMan is dropped and PassMan::new(name) makes one for a vault name.
NewPassManFor ==
    \E name \in VaultNames :
        /\ vault' = None
        /\ session' = None
        /\ crypto' = CryptoManager_new
        /\ vault_name' = name
        /\ wrongs' = 0
        /\ ev' = Event("new", "ok", "-", FALSE, FALSE)
        /\ UNCHANGED << fs, backups, max_failed_attempts, session_timeout_minutes,
                        msg, now, advances, first_salt >>

NextShared ==
    \/ SharedInitVault
    \/ SharedAddAccount
    \/ SharedAdvance
    \/ DeleteVault
    \/ NewPassManFor

SpecShared == InitStore /\ [][NextShared]_vars

-----------------------------------------------------------------------------
(* SpecGen: PasswordGenerator::generate on every PasswordOptions of the     *)
(* bounded domain, with every seed.                                         *)

Lengths == (0..MaxLength) \cup {MaxPasswordLength + 1}
Seeds == {0, 1}

AllPasswordOptions ==
    [length : Lengths, include_uppercase : BOOLEAN, include_lowercase : BOOLEAN,
     include_numbers : BOOLEAN, include_special : BOOLEAN,
     exclude_similar : BOOLEAN, exclude_ambiguous : BOOLEAN]

InitGen ==
    /\ fs = [q \in Paths |-> NoFile]
    /\ backups = NoBackups
    /\ first_salt = NoSalt
    /\ msg \in {[NoMsg EXCEPT !.options = o] : o \in AllPasswordOptions}
    /\ NewPassMan
    /\ AuthManager_default

Generate ==
    \E seed \in Seeds :
        LET r == generate(msg.options, seed)
        IN  /\ msg' = [msg EXCEPT !.res = r.res, !.password = r.out]
            /\ ev' = Event("generate", r.res, "-", FALSE, FALSE)
            /\ UNCHANGED << fs, backups, vault, session, crypto, Config, now,
                            advances, wrongs, first_salt >>

NextGen == Generate

SpecGen == InitGen /\ [][NextGen]_vars

-----------------------------------------------------------------------------
(* Properties *)

SaveOps == {"init_vault", "add_account", "update_account", "delete_account", "import_vault"}

\* The file at the vault's canonical path and at its temporary path, in a
\* file system f
CanonicalFile(f) == f[vault_path(vault_name)]
TempFile(f) == f[temp_path(vault_name)]

\* The salt the key of a complete vault file's ciphertext was derived from
KeySaltOf(file) == file.data[3].k[3]

\* The backup written at time t holds these blocks
HasBackupOf(bk, t, blocks) ==
    /\ backup_filename(t) \in DOMAIN bk
    /\ bk[backup_filename(t)].data = blocks

Min(a, b) == IF a < b THEN a ELSE b

StoreSavingCalls == SavingCalls(MasterPasswords, Salts, OneSecret, OneNonce)

\* C1: when a save stops after any of its steps, the file at the canonical
\* path is the file that was there before the save started (absent, on a
\* first save) or the complete new salt and ciphertext of that save; it is
\* never a partially written file.
C1_CrashLeavesOldOrNew ==
    [][ev'.op = "crash" =>
          \/ CanonicalFile(fs') = CanonicalFile(fs)
          \/ /\ Complete(CanonicalFile(fs'))
             /\ \E r \in StoreSavingCalls :
                    /\ r.res = "ok"
                    /\ CanonicalFile(fs') = CanonicalFile(Last(r.trace).fs)]_vars

\* A save stopped while its temporary file was partly written, next to the
\* vault file of an earlier save.
C1_Witness ==
    /\ ev.op = "crash"
    /\ TempFile(fs).exists
    /\ Len(TempFile(fs).data) \in 1..3
    /\ Complete(CanonicalFile(fs))

\* C2: once max_failed_attempts (at least one) attempts with a wrong master
\* password have been made, every later attempt fails with
\* AuthenticationFailed, the correct password included, until logout.
C2_LockedAfterMaxWrongAttempts ==
    [][(/\ max_failed_attempts >= 1
        /\ wrongs >= max_failed_attempts
        /\ ev'.op = "authenticate") => ev'.res = "AuthenticationFailed"]_vars

\* C3: after a save of the document succeeded under a key derived from a
\* password, loading the vault with that password succeeds and gives a
\* document equal to the one saved.
C3_SaveThenLoad ==
    (ev.op \in SaveOps /\ ev.res = "ok") =>
        /\ load_vault(Disk, vault_name, crypto.key[2]).res = "ok"
        /\ load_vault(Disk, vault_name, crypto.key[2]).out = Unwrap(vault)

\* A document with an account in it was saved.
C3_Witness ==
    /\ ev.op \in {"add_account", "update_account"}
    /\ ev.res = "ok"
    /\ Unwrap(vault).metadata.account_count = 1
    /\ Unwrap(vault).accounts # << >>

C5_FailedAttemptLeavesUnauthenticated ==
    [][(/\ ~IsSome(session)
        /\ ev'.op = "authenticate"
        /\ ev'.pw # CorrectPassword)
       => /\ ~is_authenticated(session', now')
          /\ get_session(session', now') = None
          /\ get_crypto(session', crypto', now').res = "AuthenticationFailed"
          /\ IsSome(session')
          /\ failed_attempts(session') = 1]_vars

\* C6: open_vault with a wrong master password on an existing vault leaves
\* failed_attempts one higher than it was.
C6_WrongPasswordIsCounted ==
    [][(/\ ev'.op = "open_vault"
        /\ IsWrong(Disk, vault_name, ev'.pw))
       => failed_attempts(session') = failed_attempts(session) + 1]_vars

\* C7: after a successful save there are at most BackupsKept backups, and a
\* save over an existing vault file adds one backup to those there were (up
\* to BackupsKept), whatever the time since the save before it.
C7_EverySaveAddsABackup ==
    [][(ev'.op \in SaveOps /\ ev'.res = "ok")
       => /\ Cardinality(DOMAIN backups') <= BackupsKept
          /\ CanonicalFile(fs).exists =>
                Cardinality(DOMAIN backups') =
                    Min(BackupsKept, Cardinality(DOMAIN backups) + 1)]_vars

\* C8: a save that starts with a file at the canonical path has written a
\* backup equal to that file by the time the canonical path is replaced, and
\* the backup is still there when the save returns success.
C8_BackupBeforeReplace ==
    [][(/\ ev'.op \in SaveOps \cup {"crash"}
        /\ CanonicalFile(fs).exists
        /\ \/ ev'.op # "crash" /\ ev'.res = "ok"
           \/ CanonicalFile(fs') # CanonicalFile(fs))
       => HasBackupOf(backups', now, CanonicalFile(fs).data)]_vars

\* A save over an existing vault returned success with the backup directory
\* full, and the backup of the replaced file is among the backups left.
C8_Witness ==
    /\ ev.op = "add_account"
    /\ ev.res = "ok"
    /\ Cardinality(DOMAIN backups) = BackupsKept
    /\ backup_filename(now) \in DOMAIN backups
    /\ backups[backup_filename(now)].data # CanonicalFile(fs).data

\* C9: open_vault returns success, with a valid session and a document, only
\* if reading, deriving, decrypting and deserializing all succeeded, and the
\* document is the one loaded; when it returns an error the session and the
\* document are as they were before the call.
C9_OpenVaultAllOrNothing ==
    [][ev'.op = "open_vault" =>
          IF ev'.res = "ok"
          THEN /\ load_vault(Disk, vault_name, ev'.pw).res = "ok"
               /\ vault' = Some(load_vault(Disk, vault_name, ev'.pw).out)
               /\ is_authenticated(session', now')
          ELSE /\ session' = session
               /\ vault' = vault]_vars

\* open_vault failed on a wrong password while a vault was open, and the
\* session and the document of the earlier open are still there.
C9_Witness ==
    /\ ev.op = "open_vault"
    /\ ev.res = "CryptoError"
    /\ IsSome(vault)
    /\ IsSome(session)

\* C10 as stated: the salt in the canonical file is the salt the first
\* init_vault generated.
C10_SaltOfFirstInitVault ==
    Complete(CanonicalFile(fs)) => CanonicalFile(fs).data[1] = first_salt

\* C10: the salt in the canonical file is the salt generated by the
\* init_vault that created the file, never changes while the file exists,
\* and is the salt the key of the stored ciphertext was derived from;
\* init_vault on an existing vault fails, generates no salt and changes
\* neither the file nor the key.
C10_SaltFixedAtCreation ==
    [][/\ CanonicalFile(fs').exists =>
            /\ Complete(CanonicalFile(fs'))
            /\ KeySaltOf(CanonicalFile(fs')) = CanonicalFile(fs').data[1]
       /\ (CanonicalFile(fs).exists /\ CanonicalFile(fs').exists) =>
            CanonicalFile(fs').data[1] = CanonicalFile(fs).data[1]
       /\ (~CanonicalFile(fs).exists /\ CanonicalFile(fs').exists) =>
            /\ ev'.op \in {"init_vault", "crash"}
            /\ ev'.op = "init_vault" => CanonicalFile(fs').data[1] = crypto'.salt
       /\ (CanonicalFile(fs).exists /\ ev'.op = "init_vault") =>
            /\ ev'.res = "VaultNotFound"
            /\ ~ev'.derived
            /\ fs' = fs
            /\ backups' = backups
            /\ crypto' = crypto]_vars

\* init_vault was refused on a vault whose file, made with the second salt
\* after an init_vault with the first salt failed, has since been saved over.
C10_Witness ==
    /\ ev.op = "init_vault"
    /\ ev.res = "VaultNotFound"
    /\ Complete(CanonicalFile(fs))
    /\ CanonicalFile(fs).data[1] # first_salt
    /\ first_salt # NoSalt
    /\ backups # NoBackups

\* A vault file of full length that is not what any save wrote
Corrupted(file) ==
    /\ file.exists
    /\ Len(file.data) = 4
    /\ ~Complete(file)

\* C11: loading a saved vault with a wrong password, and loading a copy of
\* it with damaged bytes with the correct password, both fail with
\* CryptoError.
C11_WrongPasswordLikeCorruption ==
    [][(/\ ev'.op = "open_vault"
        /\ \/ /\ Complete(CanonicalFile(fs))
              /\ ev'.pw # MasterOf(CanonicalFile(fs))
           \/ /\ Corrupted(CanonicalFile(fs))
              /\ ev'.pw = CorrectPassword)
       => ev'.res = "CryptoError"]_vars

\* The damaged file was opened with the correct password and refused.
C11_Witness ==
    /\ ev.op = "open_vault"
    /\ ev.pw = CorrectPassword
    /\ ev.res = "CryptoError"
    /\ Corrupted(CanonicalFile(fs))

\* C12: decrypt_with_key of the unchanged output of encrypt_with_key, under the
\* key it was encrypted with, succeeds and returns exactly the plaintext that
\* was encrypted, the empty plaintext included.
C12_DecryptOfEncrypt ==
    (/\ ev.op = "decrypt_with_key"
     /\ msg.bytes = msg.sent
     /\ msg.dkey = msg.key)
    => (msg.res = "ok" /\ msg.out = msg.plain)

C12_Witness ==
    /\ ev.op = "decrypt_with_key"
    /\ msg.bytes = msg.sent
    /\ msg.dkey = msg.key
    /\ msg.plain = << >>
    /\ msg.res = "ok"

\* C13: decrypt_with_key returns a plaintext only for the unchanged output of
\* encrypt_with_key under the same key: cut bytes (shorter than the nonce
\* included), bytes with one part changed (nonce, ciphertext or tag) and
\* another key all give CryptoError and no plaintext.
C13_OnlyUnmodifiedDecrypts ==
    (/\ ev.op = "decrypt_with_key"
     /\ (msg.bytes # msg.sent \/ msg.dkey # msg.key))
    => (msg.res = "CryptoError" /\ msg.out = << >>)

C13_Witness ==
    /\ ev.op = "decrypt_with_key"
    /\ msg.dkey = msg.key
    /\ Len(msg.bytes) = 3
    /\ msg.bytes[1] = msg.sent[1]
    /\ msg.bytes[2] # msg.sent[2]
    /\ msg.plain # << >>
    /\ msg.res = "CryptoError"

\* C14: derive_key returns, in every state of the manager it is called on, the
\* key a new manager returns for the same password and salt, and two calls in
\* a row with the same password and salt return the same key.
C14_DeriveKeyDeterministic ==
    [][ev'.op = "derive_key"
       => /\ msg'.kdf = derive_key(CryptoManager_new, ev'.pw, msg'.ksalt).key
          /\ (ev.op = "derive_key" /\ ev.pw = ev'.pw /\ msg.ksalt = msg'.ksalt)
             => msg'.kdf = msg.kdf]_vars

C14_Witness ==
    /\ ev.op = "derive_key"
    /\ msg.ksalt = "s2"
    /\ crypto.salt = "s2"
    /\ msg.kdf = crypto.key
    /\ msg.kdf0 # NoKey
    /\ msg.kdf0 # msg.kdf

\* C15: after close_vault (which calls AuthManager::logout, and which drop
\* runs), from whatever state it was called in, there is no session,
\* failed_attempts() is 0, is_locked_out() and is_authenticated() are false,
\* the crypto context holds no key and PassMan holds no document.
C15_CloseVaultClearsEverything ==
    ev.op = "close_vault"
    => /\ session = None
       /\ failed_attempts(session) = 0
       /\ ~is_locked_out(session, max_failed_attempts)
       /\ ~is_authenticated(session, now)
       /\ ~has_key(crypto)
       /\ vault = None

C15_Witness ==
    /\ ev.op = "close_vault"
    /\ crypto.salt # NoSalt
    /\ ~has_key(crypto)
    /\ max_failed_attempts = 0
    /\ now > 0

\* What a caller of the AuthManager gets at time t
Denied(sess, cm, t) ==
    /\ ~is_authenticated(sess, t)
    /\ get_session(sess, t) = None
    /\ time_until_expiry(sess, t) = None
    /\ get_crypto(sess, cm, t).res = "AuthenticationFailed"
    /\ get_crypto_mut(sess, cm, t).res = "AuthenticationFailed"
    /\ \A p \in Passwords : set_crypto_key(sess, cm, p, t).res = "AuthenticationFailed"

\* C16: once the clock has reached expires_at, and without any further call,
\* is_authenticated() is false, get_session() and time_until_expiry() are None,
\* and get_crypto, get_crypto_mut and set_crypto_key return
\* AuthenticationFailed; before expires_at an active session is authenticated.
C16_ExpiryLazyAndComplete ==
    IsSome(session)
    => IF now >= Unwrap(session).expires_at
       THEN Denied(session, crypto, now)
       ELSE Unwrap(session).is_active => is_authenticated(session, now)

C16_Witness ==
    /\ ev.op = "advance"
    /\ IsSome(session)
    /\ Unwrap(session).created_at < Unwrap(session).expires_at
    /\ now = Unwrap(session).expires_at

\* C17: extend_session(t) on an existing session, valid or expired, sets
\* expires_at to last_activity + t and changes no other field; with no session
\* it does nothing.
C17_ExtendFromLastActivity ==
    [][ev'.op = "extend_session"
       => IF IsSome(session)
          THEN \E timeout_minutes \in TimeoutMinutes :
                  session' = Some([Unwrap(session) EXCEPT
                                     !.expires_at = Unwrap(session).last_activity
                                                    + timeout_minutes * SecondsPerMinute])
          ELSE session' = None]_vars

C17_Witness ==
    /\ ev.op = "extend_session"
    /\ IsSome(session)
    /\ Unwrap(session).last_activity < now
    /\ Unwrap(session).expires_at
         = Unwrap(session).last_activity + DefaultSessionTimeoutMinutes * SecondsPerMinute
    /\ Unwrap(session).expires_at < now + DefaultSessionTimeoutMinutes * SecondsPerMinute
    /\ Unwrap(session).expires_at > Unwrap(session).created_at
                                    + DefaultSessionTimeoutMinutes * SecondsPerMinute

\* C18: failed_attempts() decreases only at a successful authenticate or at
\* logout, and update_activity and extend_session leave it unchanged.
C18_FailedAttemptsMonotone ==
    [][/\ failed_attempts(session') < failed_attempts(session)
          => \/ ev'.op = "authenticate" /\ ev'.res = "ok"
             \/ ev'.op = "logout"
       /\ ev'.op \in {"update_activity", "extend_session"}
          => failed_attempts(session') = failed_attempts(session)]_vars

C18_Witness ==
    /\ ev.op = "update_activity"
    /\ IsSome(session)
    /\ Unwrap(session).last_activity = now
    /\ Unwrap(session).created_at < now
    /\ failed_attempts(session) = 0

\* C19: whenever a session object exists, its expires_at is strictly later
\* than its created_at, for every configured timeout (0 included) and after
\* any update_activity and extend_session calls.
C19_ExpiresAfterCreated ==
    IsSome(session) => Unwrap(session).expires_at > Unwrap(session).created_at

\* C20: is_authenticated() and is_locked_out() are never both true, for any
\* max_failed_attempts (0 included), and get_crypto() never succeeds while
\* is_locked_out() is true.
C20_StatesExclusive ==
    /\ ~(is_authenticated(session, now) /\ is_locked_out(session, max_failed_attempts))
    /\ is_locked_out(session, max_failed_attempts)
       => get_crypto(session, crypto, now).res # "ok"

AccountOps == {"add_account", "update_account", "delete_account"}

\* C21: after init_vault succeeds on a PassMan for which no vault file
\* existed, is_vault_open() returns true on that instance.
C21_OpenAfterInitVault ==
    (ev.op = "init_vault" /\ ev.res = "ok") => is_vault_open(Memory, now)

\* C22: add_account, update_account and delete_account return an error and
\* write nothing to disk whenever is_vault_open() is false (no document, or no
\* authenticated and unexpired session).
C22_AccountOpsNeedOpenVault ==
    [][(ev'.op \in AccountOps /\ ~is_vault_open(Memory, now))
       => (ev'.res # "ok" /\ fs' = fs /\ backups' = backups)]_vars

\* C25: for every PasswordOptions that passes validation, generate returns a
\* password of exactly options.length characters, also when length is smaller
\* than the number of enabled character classes.
C25_GeneratedLength ==
    (ev.op = "generate" /\ validate_options(msg.options) = "ok")
    => (msg.res = "ok" /\ Len(msg.password) = msg.options.length)

\* C26: after open_vault succeeds on a new PassMan, the session's crypto context
\* holds the salt of the vault file and the key derived from the password and that
\* salt, and an add_account that follows at once succeeds.
C26_KeyHeldAfterOpenVault ==
    [][/\ (ev.op = "new" /\ ev'.op = "open_vault" /\ ev'.res = "ok")
          => /\ crypto'.salt = CanonicalFile(fs').data[1]
             /\ crypto'.key = Argon2(ev'.pw, CanonicalFile(fs').data[1])
       /\ (ev.op = "open_vault" /\ ev.res = "ok" /\ ev'.op = "add_account")
          => ev'.res = "ok"]_vars

\* C27: when add_account, update_account, delete_account or import_vault
\* returns an error, the in-memory document is the same as before the call.
C27_ErrorLeavesDocument ==
    [][(ev'.op \in AccountOps \cup {"import_vault"} /\ ev'.res # "ok")
       => vault' = vault]_vars

\* C28: when a saving call returns an error, whichever step of save_vault
\* failed, the canonical file has the same content as before the call.
C28_FailedSaveLeavesFile ==
    [][(ev'.op \in SaveOps /\ ev'.res # "ok")
       => CanonicalFile(fs') = CanonicalFile(fs)]_vars

\* C30: the session's crypto context holds a key only while the session is
\* authenticated (active and unexpired), and no saving call succeeds, having
\* encrypted with a key, while the session is not authenticated.
C30_KeyOnlyWhileAuthenticated ==
    /\ has_key(crypto) => is_authenticated(session, now)
    /\ (ev.op \in SaveOps /\ ev.res = "ok") => IsSome(session)

\* C24: on every open, authenticated session export_vault succeeds, and the
\* import_vault of the exported file that follows it succeeds, leaves the
\* in-memory document as it was and the canonical file loadable to that
\* document with the unchanged master password, and leaves the key and salt
\* of the crypto context as they were.
C24_ExportThenImport ==
    [][/\ (is_vault_open(Memory, now) /\ ev'.op = "export_vault") => ev'.res = "ok"
       /\ (/\ is_vault_open(Memory, now)
           /\ ev.op = "export_vault" /\ ev.res = "ok"
           /\ ev'.op = "import_vault")
          => /\ ev'.res = "ok"
             /\ vault' = vault
             /\ crypto' = crypto
             /\ Some(load_vault([fs |-> fs', backups |-> backups'], vault_name,
                                MasterOf(CanonicalFile(fs))).out) = vault]_vars

\* C23: after delete_vault(name) returns success, the canonical file of that
\* vault does not exist and no backup that is a copy of that vault's file is
\* left in the backup directory.
C23_DeleteVaultRemovesBackups ==
    (ev.op = "delete_vault" /\ ev.res = "ok")
    => \A name \in VaultNames :
          ev.pw = name => /\ ~fs[vault_path(name)].exists
                          /\ BackupsOf(backups, name) = {}

\* C29: a saving call on one vault neither deletes nor overwrites a backup
\* that is a copy of another vault's file.
C29_BackupsPerVault ==
    [][ev'.op \in SaveOps
       => \A name \in VaultNames \ {vault_name} :
             \A f \in BackupsOf(backups, name) :
                /\ f \in DOMAIN backups'
                /\ backups'[f] = backups[f]]_vars

====
